---- MODULE Spec2Model ----
(***************************************************************************)
(* Model of the matrix-media-repo core: the federation resolver            *)
(* (GetServerApiUrl), the federated fetcher (FederatedGet), the datastore  *)
(* registry (GetOrCreateDatastoreOfType and its sibling) and the           *)
(* thumbnailer (GenerateThumbnail).                                        *)
(*                                                                         *)
(* Go strings that the code takes apart or builds (host names, URLs) are   *)
(* sequences of one-character strings, so that parsing and formatting are  *)
(* computed and not assumed.  Strings that the code only copies or         *)
(* compares (MIME types, paths, methods) are TLA+ strings.                 *)
(***************************************************************************)
EXTENDS Integers, Sequences, FiniteSets, Bags, TLC

VARIABLES
    apiUrlCacheInstance,   \* the process-wide resolver cache: [isNil, items]
    apiUrlSingletonLock,   \* sync.Once of setupCache: TRUE once its function ran
    goroutine,             \* per goroutine: position and locals of a concurrent call
    cacheNews,             \* how many times cache.New has run
    inFlight,              \* bag of the GetServerApiUrl calls on their way, each at its step
    resolveLog,            \* results of the GetServerApiUrl calls that returned
    lastAnswers,           \* what the network answered to the latest of them
    fetchLog,              \* results of the FederatedGet calls made so far
    dsTable,               \* rows of the datastores table
    dsCall,                \* per caller: position and locals of a get-or-create call
    disk,                  \* sizes of the blobs storage.PersistFile wrote, by location
    thumbCall              \* the GenerateThumbnail call in progress or just returned

vars == <<apiUrlCacheInstance, apiUrlSingletonLock, goroutine, cacheNews, inFlight,
          resolveLog, lastAnswers, fetchLog, dsTable, dsCall, disk, thumbCall>>

resolverVars == <<apiUrlCacheInstance, apiUrlSingletonLock, cacheNews, inFlight,
                  resolveLog, lastAnswers>>
setupVars == <<goroutine>>
fetcherVars == <<fetchLog>>
datastoreVars == <<dsTable, dsCall>>
thumbVars == <<disk, thumbCall>>

(***************************************************************************)
(* Strings as character sequences                                          *)
(***************************************************************************)
EmptyStr == << >>

RECURSIVE IndexByte(_, _, _)
\* Position (1-based) of the first c in s at or after position from; 0 if none.
IndexByte(s, c, from) ==
    IF from > Len(s) THEN 0
    ELSE IF s[from] = c THEN from
    ELSE IndexByte(s, c, from + 1)

RECURSIVE LastIndexByte(_, _, _)
\* Position (1-based) of the last c in s at or before position upto; 0 if none.
LastIndexByte(s, c, upto) ==
    IF upto < 1 THEN 0
    ELSE IF s[upto] = c THEN upto
    ELSE LastIndexByte(s, c, upto - 1)

Contains(s, c) == IndexByte(s, c, 1) > 0

DecDigits == <<"0", "1", "2", "3", "4", "5", "6", "7", "8", "9">>

DigitChars == {DecDigits[i] : i \in 1..10}

DigitVal(c) == (CHOOSE i \in 1..10 : DecDigits[i] = c) - 1

HexLetters == {"a", "b", "c", "d", "e", "f", "A", "B", "C", "D", "E", "F"}

HexVal(c) ==
    IF c \in DigitChars THEN DigitVal(c)
    ELSE CASE c \in {"a", "A"} -> 10 [] c \in {"b", "B"} -> 11
           [] c \in {"c", "C"} -> 12 [] c \in {"d", "D"} -> 13
           [] c \in {"e", "E"} -> 14 [] c \in {"f", "F"} -> 15

RECURSIVE FormatInt(_)
\* fmt's %d of a non-negative integer.
FormatInt(n) ==
    IF n < 10 THEN <<DecDigits[n + 1]>>
    ELSE FormatInt(n \div 10) \o <<DecDigits[(n % 10) + 1]>>

(***************************************************************************)
(* Go's net package, as far as the resolver uses it                        *)
(***************************************************************************)
ErrNil == "nil"
MissingPort == "missing port in address"
TooManyColons == "too many colons in address"
MissingBracket == "missing ']' in address"
UnexpectedOpen == "unexpected '[' in address"
UnexpectedClose == "unexpected ']' in address"

AddrErr(why) == [host |-> EmptyStr, port |-> EmptyStr, err |-> why]

\* net.SplitHostPort.  The error is the AddrError's Err; the address that
\* Error() prints before it plays no part in what the resolver does with it.
SplitHostPort(hostport) ==
    LET n == Len(hostport)
        i == LastIndexByte(hostport, ":", n)
        finish(host, j, k) ==
            IF IndexByte(hostport, "[", j) > 0 THEN AddrErr(UnexpectedOpen)
            ELSE IF IndexByte(hostport, "]", k) > 0 THEN AddrErr(UnexpectedClose)
            ELSE [host |-> host, port |-> SubSeq(hostport, i + 1, n), err |-> ErrNil]
    IN  IF i = 0 THEN AddrErr(MissingPort)
        ELSE IF hostport[1] = "["
        THEN LET end == IndexByte(hostport, "]", 1)
             IN  IF end = 0 THEN AddrErr(MissingBracket)
                 ELSE IF end = n THEN AddrErr(MissingPort)
                 ELSE IF end + 1 = i
                      THEN finish(SubSeq(hostport, 2, end - 1), 2, end + 1)
                 ELSE IF hostport[end + 1] = ":" THEN AddrErr(TooManyColons)
                 ELSE AddrErr(MissingPort)
        ELSE LET host == SubSeq(hostport, 1, i - 1)
             IN  IF Contains(host, ":") THEN AddrErr(TooManyColons)
                 ELSE finish(host, 1, 1)

\* strings.HasSuffix(err.Error(), "missing port in address"): Error() is
\* "address <addr>: <Err>", and no other Err of SplitHostPort ends that way.
IsMissingPort(err) == err = MissingPort

RECURSIVE Dtoi(_, _, _, _)
\* net.dtoi: the decimal number at position pos; c digits were read.
Dtoi(s, pos, n, c) ==
    IF pos > Len(s) \/ s[pos] \notin DigitChars
    THEN [n |-> n, c |-> c, ok |-> c > 0]
    ELSE LET n2 == n * 10 + DigitVal(s[pos])
         IN  IF n2 >= 16777215 THEN [n |-> 16777215, c |-> c, ok |-> FALSE]
             ELSE Dtoi(s, pos + 1, n2, c + 1)

RECURSIVE Xtoi(_, _, _, _)
\* net.xtoi: the hexadecimal number at position pos; c digits were read.
Xtoi(s, pos, n, c) ==
    IF pos > Len(s) \/ s[pos] \notin (DigitChars \cup HexLetters)
    THEN [n |-> n, c |-> c, ok |-> c > 0]
    ELSE LET n2 == n * 16 + HexVal(s[pos])
         IN  IF n2 >= 16777215 THEN [n |-> 0, c |-> c, ok |-> FALSE]
             ELSE Xtoi(s, pos + 1, n2, c + 1)

RECURSIVE ParseIPv4(_, _, _)
\* net.parseIPv4 from position pos, with i octets read: is it an address?
ParseIPv4(s, pos, i) ==
    IF i = 4 THEN pos > Len(s)
    ELSE IF pos > Len(s) THEN FALSE
    ELSE IF i > 0 /\ s[pos] # "." THEN FALSE
    ELSE LET start == IF i > 0 THEN pos + 1 ELSE pos
             d == Dtoi(s, start, 0, 0)
         IN  IF ~d.ok \/ d.n > 255 THEN FALSE
             ELSE ParseIPv4(s, start + d.c, i + 1)

\* The end of net.parseIPv6: the whole string was used, and the ellipsis
\* stands for at least one group.
IPv6Done(i, ellipsis, used) ==
    /\ used
    /\ IF i < 16 THEN ellipsis >= 0 ELSE ellipsis < 0

RECURSIVE ParseIPv6(_, _, _, _)
\* The loop of net.parseIPv6 from position pos, with i bytes filled.
ParseIPv6(s, pos, i, ellipsis) ==
    IF i >= 16 THEN IPv6Done(i, ellipsis, pos > Len(s))
    ELSE LET x == Xtoi(s, pos, 0, 0)
             c == pos + x.c
         IN  IF ~x.ok \/ x.n > 65535 THEN FALSE
             ELSE IF c <= Len(s) /\ s[c] = "."
             THEN /\ ~(ellipsis < 0 /\ i # 12)
                  /\ i + 4 <= 16
                  /\ ParseIPv4(SubSeq(s, pos, Len(s)), 1, 0)
                  /\ IPv6Done(i + 4, ellipsis, TRUE)
             ELSE IF c > Len(s) THEN IPv6Done(i + 2, ellipsis, TRUE)
             ELSE IF s[c] # ":" \/ c = Len(s) THEN FALSE
             ELSE IF s[c + 1] = ":"
             THEN IF ellipsis >= 0 THEN FALSE
                  ELSE IF c + 2 > Len(s) THEN IPv6Done(i + 2, i + 2, TRUE)
                  ELSE ParseIPv6(s, c + 2, i + 2, i + 2)
             ELSE ParseIPv6(s, c + 1, i + 2, ellipsis)

\* net.ParseIP(s) != nil: the first '.' or ':' decides which form is tried.
ParseIP(s) ==
    LET dot == IndexByte(s, ".", 1)
        colon == IndexByte(s, ":", 1)
    IN  IF dot = 0 /\ colon = 0 THEN FALSE
        ELSE IF colon = 0 \/ (dot > 0 /\ dot < colon) THEN ParseIPv4(s, 1, 0)
        ELSE IF Len(s) >= 2 /\ s[1] = ":" /\ s[2] = ":"
             THEN Len(s) = 2 \/ ParseIPv6(s, 3, 0, 0)
        ELSE ParseIPv6(s, 1, 0, 0 - 1)

\* is.IP of github.com/alioygur/is.
IsIP(str) == ParseIP(str)

(***************************************************************************)
(* The resolver: GetServerApiUrl                                           *)
(***************************************************************************)
Https == <<"h", "t", "t", "p", "s", ":", "/", "/">>

DefaultPortSuffix == <<":", "8", "4", "4", "8">>

\* fmt.Sprintf("https://%s:%s", host, port)
UrlOf(host, port) == Https \o host \o <<":">> \o port

\* fmt.Sprintf("https://%s:%d", realAddr, port)
UrlOfSrv(realAddr, port) == Https \o realAddr \o <<":">> \o FormatInt(port)

\* What the call asks of the network, in the order asked.
WkGet(h) == <<"GET", h>>
SrvLookup(name) == <<"SRV", name>>

\* apiUrlCacheInstance.Get(hostname)
CacheGet(items, key) ==
    IF key \in DOMAIN items
    THEN [found |-> TRUE, record |-> items[key]]
    ELSE [found |-> FALSE, record |-> EmptyStr]

CacheSetNothing(items, key, url) == items

\* apiUrlCacheInstance.Set(hostname, url, cache.DefaultExpiration)
CacheSet(items, key, url) ==
    [k \in (DOMAIN items) \cup {key} |-> IF k = key THEN url ELSE items[k]]

\* The host, port and defPort of the input, with ":8448" appended when the
\* first parse misses the port.
ParseHostname(hostname) ==
    LET first == SplitHostPort(hostname)
    IN  IF first.err # ErrNil /\ IsMissingPort(first.err)
        THEN LET second == SplitHostPort(hostname \o DefaultPortSuffix)
             IN  [h |-> second.host, p |-> second.port, err |-> second.err,
                  defPort |-> TRUE]
        ELSE [h |-> first.host, p |-> first.port, err |-> first.err,
              defPort |-> FALSE]

\* The same for the server address of the .well-known response.
ParseServerAddr(serverAddr) ==
    LET first == SplitHostPort(serverAddr)
    IN  IF first.err # ErrNil /\ IsMissingPort(first.err)
        THEN LET second == SplitHostPort(serverAddr \o DefaultPortSuffix)
             IN  [wkHost |-> second.host, wkPort |-> second.port,
                  err4 |-> second.err, wkDefPort |-> TRUE]
        ELSE [wkHost |-> first.host, wkPort |-> first.port, err4 |-> first.err,
              wkDefPort |-> FALSE]

TrimTrailingDotKept(realAddr) == realAddr

\* "Trim off the trailing period if there is one"
TrimTrailingDot(realAddr) ==
    IF realAddr[Len(realAddr)] = "."
    THEN SubSeq(realAddr, 1, Len(realAddr) - 1)
    ELSE realAddr

\* The URL of the first SRV record.
SrvUrl(addrs) == UrlOfSrv(TrimTrailingDot(addrs[1].Target), addrs[1].Port)

Step2Never(defPort) == FALSE

WkUsableAlways(wk) == TRUE

\* Step 2 applies when the port was given explicitly.
Step2Applies(defPort) == ~defPort

\* The .well-known response can be used: the GET succeeded with status 200,
\* the body was read and parsed, and it names a server.
WkUsable(wk) ==
    /\ ~wk.getErr /\ wk.status = 200
    /\ ~wk.readErr
    /\ ~wk.jsonErr /\ wk.serverAddr # EmptyStr

Outcome(url, sni, err, step, net, wrote) ==
    [url |-> url, sni |-> sni, err |-> err, step |-> step, net |-> net,
     wrote |-> wrote]

NoOutcome == Outcome(EmptyStr, EmptyStr, ErrNil, "", << >>, FALSE)

WellKnownFatal(h, wk, srv) ==
    IF WkUsable(wk)
    THEN Outcome(UrlOf(h, DefaultPortSuffix), h, ErrNil, "3d", <<WkGet(h)>>, TRUE)
    ELSE Outcome(EmptyStr, EmptyStr, "well-known failed", "3", <<WkGet(h)>>, FALSE)

\* Step 3: the .well-known lookup on h and what follows from its answer.
\* step "none" means the call falls through to step 4.
WellKnown(h, wk, srv) ==
    LET get == <<WkGet(h)>>
        none == Outcome(EmptyStr, EmptyStr, ErrNil, "none", get, FALSE)
    IN  IF ~WkUsable(wk) THEN none
        ELSE LET a == ParseServerAddr(wk.serverAddr)
             IN  IF a.err4 # ErrNil THEN none
                 ELSE IF IsIP(a.wkHost)
                 THEN Outcome(UrlOf(a.wkHost, a.wkPort), wk.serverAddr, ErrNil,
                              "3a", get, TRUE)
                 ELSE IF ~a.wkDefPort
                 THEN Outcome(UrlOf(a.wkHost, a.wkPort), a.wkHost, ErrNil,
                              "3b", get, TRUE)
                 ELSE IF Len(srv) > 0
                 THEN Outcome(SrvUrl(srv), a.wkHost, ErrNil, "3c",
                              get \o <<SrvLookup(a.wkHost)>>, TRUE)
                 ELSE Outcome(UrlOf(a.wkHost, a.wkPort), a.wkHost, ErrNil, "3d",
                              get \o <<SrvLookup(a.wkHost)>>, TRUE)

\* Steps 4 and 5: SRV on the input, then the host as it is.
SrvOrFallback(hostname, h, p, srv, net) ==
    IF Len(srv) > 0
    THEN Outcome(SrvUrl(srv), h, ErrNil, "4", net \o <<SrvLookup(hostname)>>, TRUE)
    ELSE Outcome(UrlOf(h, p), h, ErrNil, "5", net \o <<SrvLookup(hostname)>>, TRUE)

\* The part of GetServerApiUrl that runs before any network request: the
\* cache lookup, the parse of the input, step 1 and step 2.  step "network"
\* means the call goes on to step 3.
BeforeNetwork(hostname, items) ==
    LET got == CacheGet(items, hostname)
    IN  IF got.found
        THEN Outcome(got.record, hostname, ErrNil, "cache", << >>, FALSE)
        ELSE LET a == ParseHostname(hostname)
             IN  IF a.err # ErrNil
                 THEN Outcome(EmptyStr, EmptyStr, a.err, "parse", << >>, FALSE)
                 ELSE IF IsIP(a.h)
                 THEN Outcome(UrlOf(a.h, a.p), hostname, ErrNil, "1", << >>, TRUE)
                 ELSE IF Step2Applies(a.defPort)
                 THEN Outcome(UrlOf(a.h, a.p), a.h, ErrNil, "2", << >>, TRUE)
                 ELSE Outcome(EmptyStr, EmptyStr, ErrNil, "network", << >>, FALSE)

\* GetServerApiUrl(hostname) over the cache items, with the answers the
\* network gives to this call: wk to the .well-known GET, srv to the SRV
\* lookup.  The result says what is returned, what was asked of the
\* network, and whether the cache entry of hostname was set to url.
GetServerApiUrl(hostname, items, wk, srv) ==
    LET e == BeforeNetwork(hostname, items)
    IN  IF e.step # "network" THEN e
        ELSE LET a == ParseHostname(hostname)
                 w == WellKnown(a.h, wk, srv)
             IN  IF w.step # "none" THEN w
                 ELSE SrvOrFallback(hostname, a.h, a.p, srv, w.net)

(***************************************************************************)
(* The inputs of the resolver: host names, .well-known answers, SRV answers *)
(***************************************************************************)
HostACo == <<"a", ".", "c", "o">>
HostBCo == <<"b", ".", "c", "o">>
HostMBCo == <<"m", ".", "b", ".", "c", "o">>
Ip4 == <<"1", ".", "2", ".", "3", ".", "4">>
Ip6 == <<":", ":", "1">>
Ip6Upper == <<":", ":", "A">>
Port80 == <<":", "8", "0">>
Port443 == <<":", "4", "4", "3">>

Hostnames ==
    { HostACo,                          \* a.co
      HostACo \o <<":", "8", "4", "4", "9">>,   \* a.co:8449
      <<"[">> \o HostACo \o <<"]">> \o Port80,   \* [a.co]:80
      Ip4,                              \* 1.2.3.4
      Ip4 \o Port80,                    \* 1.2.3.4:80
      <<"[">> \o Ip6Upper \o <<"]">>,   \* [::A]
      <<"[">> \o Ip6 \o <<"]">> \o Port80,   \* [::1]:80
      Ip6,                              \* ::1
      EmptyStr,                         \* the empty string
      DefaultPortSuffix,                \* :8448
      <<"a", "]">>,                     \* a]
      <<"[", "a", "]", "b">> }          \* [a]b

WkAnswer(getErr, status, readErr, jsonErr, serverAddr) ==
    [getErr |-> getErr, status |-> status, readErr |-> readErr,
     jsonErr |-> jsonErr, serverAddr |-> serverAddr]

WkOk(serverAddr) == WkAnswer(FALSE, 200, FALSE, FALSE, serverAddr)

\* The value logged for a call that did not ask for .well-known.
WkNotAsked == WkAnswer(FALSE, 0, FALSE, FALSE, EmptyStr)

WkAnswers ==
    { WkAnswer(TRUE, 0, FALSE, FALSE, EmptyStr),      \* the GET failed
      WkAnswer(FALSE, 404, FALSE, FALSE, EmptyStr),   \* not found
      WkAnswer(FALSE, 200, TRUE, FALSE, EmptyStr),    \* body unreadable
      WkAnswer(FALSE, 200, FALSE, TRUE, EmptyStr),    \* body is not JSON
      WkOk(EmptyStr),                                 \* no server named
      WkOk(<<"b", "]">>),                             \* b]
      WkOk(<<"9", ".", "9", ".", "9", ".", "9">>),    \* 9.9.9.9
      WkOk(<<"[">> \o Ip6Upper \o <<"]">> \o Port443),    \* [::A]:443
      WkOk(HostBCo \o Port443),                       \* b.co:443
      WkOk(Port443),                                  \* :443
      WkOk(HostBCo) }                                 \* b.co

SrvRecord(target, port) == [Target |-> target, Port |-> port]

SrvAnswers ==
    { << >>,                                          \* error or no record
      <<SrvRecord(HostMBCo \o <<".">>, 8448)>>,       \* m.b.co. 8448
      <<SrvRecord(HostMBCo, 443), SrvRecord(HostBCo \o <<".">>, 80)>> }

\* http.Get of a URL without a host fails before anything is sent.
WkAnswersFor(h) ==
    IF h = EmptyStr THEN {WkAnswer(TRUE, 0, FALSE, FALSE, EmptyStr)}
    ELSE WkAnswers

MaxResolveLog == 2

(***************************************************************************)
(* The resolver as a state machine                                         *)
(***************************************************************************)
Asked(net, op) == \E i \in 1..Len(net) : net[i][1] = op

NoAnswers == [wk |-> WkNotAsked, srv |-> << >>]

\* The log entry of a call that returned r.
LogEntry(hostname, r) ==
    [kind |-> "call", hostname |-> hostname, url |-> r.url, sni |-> r.sni,
     err |-> r.err, step |-> r.step, net |-> r.net, wrote |-> r.wrote]

\* The answers the network gave to a call, of those it asked for.
AnswersTo(r, wk, srv) ==
    [wk |-> IF Asked(r.net, "GET") THEN wk ELSE WkNotAsked,
     srv |-> IF Asked(r.net, "SRV") THEN srv ELSE << >>]

\* A call on its way: where it is (pc), its input and, once it is past the
\* discovery, what it is about to return and the answers it got.
\*   "do"      at apiUrlSingletonLock.Do, having read a nil instance
\*   "new"     inside the Once, before cache.New
\*   "assign"  inside the Once, cache.New done, before the assignment
\*   "finish"  inside the Once, instance assigned, the Once not yet done
\*   "get"     past setupCache, before the cache lookup
\*   "set"     past the discovery, before the Set of its result
Call(pc, hostname, r, answers) ==
    [pc |-> pc, hostname |-> hostname, r |-> r, answers |-> answers]

CallsAt(pcs) == {call \in BagToSet(inFlight) : call.pc \in pcs}

\* The bag of the calls on their way with call moved to pc.
Moved(call, pc) ==
    (inFlight (-) SetToBag({call})) (+) SetToBag({[call EXCEPT !.pc = pc]})

\* A call is past its cache lookup and its discovery: a call that is to set
\* the cache waits for its Set, any other call returns.  rest is the other
\* calls on their way.
Discover(rest, hostname, r, wk, srv) ==
    IF r.wrote
    THEN /\ inFlight' = rest (+) SetToBag(
                {Call("set", hostname, r, AnswersTo(r, wk, srv))})
         /\ UNCHANGED <<resolveLog, lastAnswers>>
    ELSE /\ resolveLog' = Append(resolveLog, LogEntry(hostname, r))
         /\ lastAnswers' = AnswersTo(r, wk, srv)
         /\ inFlight' = rest

\* The cache lookup at the instance that is set, the parse and the
\* discovery with the answers the network gives.  The call holds no lock
\* while it waits for the network, so other calls and expiries fall
\* between its lookup and its Set.
GetAndDiscover(rest, hostname) ==
    /\ ~apiUrlCacheInstance.isNil
    /\ LET items == apiUrlCacheInstance.items
           e == BeforeNetwork(hostname, items)
       IN  IF e.step # "network"
           THEN Discover(rest, hostname,
                         GetServerApiUrl(hostname, items, WkNotAsked, << >>),
                         WkNotAsked, << >>)
           ELSE \E wk \in WkAnswersFor(ParseHostname(hostname).h),
                   srv \in SrvAnswers :
                    Discover(rest, hostname,
                             GetServerApiUrl(hostname, items, wk, srv), wk, srv)
    /\ UNCHANGED <<apiUrlCacheInstance, apiUrlSingletonLock, cacheNews>>

\* A call of GetServerApiUrl begins: setupCache reads apiUrlCacheInstance.
\* The read is outside the Once and races with the assignment inside it:
\* it gives nil while the instance is nil and may still give nil once the
\* instance is set.  A call that read nil goes to the Once.  A call that
\* read the pointer goes on to its cache lookup; the pointer never changes
\* again and the read changes nothing, so read and lookup are one step,
\* taken when the lookup is.  Once the Once is done a call that read nil
\* finds Do return at once and goes on as one that read the pointer.
Resolve(hostname, readsNil) ==
    /\ Len(resolveLog) + BagCardinality(inFlight) < MaxResolveLog
    /\ apiUrlCacheInstance.isNil => readsNil
    /\ apiUrlSingletonLock => ~readsNil
    /\ IF readsNil
       THEN /\ inFlight' = inFlight (+) SetToBag(
                   {Call("do", hostname, NoOutcome, NoAnswers)})
            /\ UNCHANGED <<apiUrlCacheInstance, apiUrlSingletonLock, cacheNews,
                           resolveLog, lastAnswers>>
       ELSE GetAndDiscover(inFlight, hostname)
    /\ UNCHANGED <<setupVars, fetcherVars, datastoreVars, thumbVars>>

\* apiUrlSingletonLock.Do: a call enters the Once when the Once is not done
\* and no other call is inside.
ResolveOnceDo ==
    /\ ~apiUrlSingletonLock
    /\ CallsAt({"new", "assign", "finish"}) = {}
    /\ \E call \in CallsAt({"do"}) : inFlight' = Moved(call, "new")
    /\ UNCHANGED <<apiUrlCacheInstance, apiUrlSingletonLock, cacheNews,
                   resolveLog, lastAnswers, setupVars, fetcherVars,
                   datastoreVars, thumbVars>>

\* cache.New(1*time.Hour, 2*time.Hour), the right-hand side of the
\* assignment.
ResolveCacheNew ==
    /\ \E call \in CallsAt({"new"}) : inFlight' = Moved(call, "assign")
    /\ cacheNews' = cacheNews + 1
    /\ UNCHANGED <<apiUrlCacheInstance, apiUrlSingletonLock, resolveLog,
                   lastAnswers, setupVars, fetcherVars, datastoreVars, thumbVars>>

\* apiUrlCacheInstance = the new cache.
ResolveCacheAssign ==
    /\ \E call \in CallsAt({"assign"}) : inFlight' = Moved(call, "finish")
    /\ apiUrlCacheInstance' = [isNil |-> FALSE, items |-> << >>]
    /\ UNCHANGED <<apiUrlSingletonLock, cacheNews, resolveLog, lastAnswers,
                   setupVars, fetcherVars, datastoreVars, thumbVars>>

\* The function of the Once returns: the Once is done.
ResolveOnceFinish ==
    /\ \E call \in CallsAt({"finish"}) : inFlight' = Moved(call, "get")
    /\ apiUrlSingletonLock' = TRUE
    /\ UNCHANGED <<apiUrlCacheInstance, cacheNews, resolveLog, lastAnswers,
                   setupVars, fetcherVars, datastoreVars, thumbVars>>

\* A call that is past setupCache, or that waited at the Once and finds it
\* done, looks the cache up and runs the discovery.
ResolveGet ==
    /\ \E call \in CallsAt({"do", "get"}) :
           /\ call.pc = "do" => apiUrlSingletonLock
           /\ GetAndDiscover(inFlight (-) SetToBag({call}), call.hostname)
    /\ UNCHANGED <<setupVars, fetcherVars, datastoreVars, thumbVars>>

\* A call past its discovery sets the cache entry of its host name and
\* returns.
ResolveSet ==
    /\ \E call \in CallsAt({"set"}) :
           /\ apiUrlCacheInstance' =
                  [apiUrlCacheInstance EXCEPT !.items =
                       CacheSet(@, call.hostname, call.r.url)]
           /\ resolveLog' = Append(resolveLog, LogEntry(call.hostname, call.r))
           /\ lastAnswers' = call.answers
           /\ inFlight' = inFlight (-) SetToBag({call})
    /\ UNCHANGED <<apiUrlSingletonLock, cacheNews, setupVars, fetcherVars,
                   datastoreVars, thumbVars>>

\* The entry of hostname reaches its expiry (one hour after it was set).
CacheExpire(hostname) ==
    /\ Len(resolveLog) + BagCardinality(inFlight) < MaxResolveLog
    /\ ~apiUrlCacheInstance.isNil
    /\ hostname \in DOMAIN apiUrlCacheInstance.items
    /\ apiUrlCacheInstance' =
           [apiUrlCacheInstance EXCEPT !.items =
               [k \in (DOMAIN @) \ {hostname} |-> @[k]]]
    /\ resolveLog' = Append(resolveLog,
           [kind |-> "expire", hostname |-> hostname, url |-> EmptyStr,
            sni |-> EmptyStr, err |-> ErrNil, step |-> "expire", net |-> << >>,
            wrote |-> FALSE])
    /\ lastAnswers' = NoAnswers
    /\ UNCHANGED <<apiUrlSingletonLock, cacheNews, inFlight, setupVars,
                   fetcherVars, datastoreVars, thumbVars>>

NextResolver ==
    \/ \E hostname \in Hostnames, readsNil \in BOOLEAN : Resolve(hostname, readsNil)
    \/ ResolveOnceDo
    \/ ResolveCacheNew
    \/ ResolveCacheAssign
    \/ ResolveOnceFinish
    \/ ResolveGet
    \/ ResolveSet
    \/ \E hostname \in Hostnames : CacheExpire(hostname)

(***************************************************************************)
(* Properties of the resolver                                              *)
(***************************************************************************)
ResolveCalls == {i \in 1..Len(resolveLog) : resolveLog[i].kind = "call"}

HostACo8449 == HostACo \o <<":", "8", "4", "4", "9">>

\* The call i that filled the cache entry which call j was answered from:
\* the latest earlier call of the same host name that returned a result
\* and was not itself answered from the cache, with no expiry in between.
FilledFor(i, j) ==
    /\ i < j
    /\ resolveLog[i].kind = "call"
    /\ resolveLog[i].hostname = resolveLog[j].hostname
    /\ resolveLog[i].err = ErrNil
    /\ resolveLog[i].step # "cache"
    /\ \A k \in (i + 1)..(j - 1) :
           resolveLog[k].hostname = resolveLog[j].hostname
               => resolveLog[k].step = "cache"

\* An earlier call left an unexpired entry for the host name of call j.
CachedBefore(j) == \E i \in ResolveCalls : FilledFor(i, j)

\* Call j found an entry for its host name in the cache.  A call that
\* looked the cache up before a concurrent call set the entry did not.
AnsweredFromCache(j) == resolveLog[j].step = "cache"

\* C1: a call answered from the cache returns the same base_url and the
\* same sni_host as the call that ran the discovery steps for that host.
C1_CacheHitSameResult ==
    \A j \in ResolveCalls :
        resolveLog[j].step = "cache" =>
            \E i \in ResolveCalls :
                /\ FilledFor(i, j)
                /\ resolveLog[j].url = resolveLog[i].url
                /\ resolveLog[j].sni = resolveLog[i].sni

HasHttpsPrefix(url) ==
    Len(url) >= Len(Https) /\ SubSeq(url, 1, Len(Https)) = Https

\* C5: every call that returns without error returns a base_url that
\* begins with "https://" and a non-empty sni_host.
C5_HttpsAndNonEmptySni ==
    \A i \in ResolveCalls :
        resolveLog[i].err = ErrNil =>
            /\ HasHttpsPrefix(resolveLog[i].url)
            /\ resolveLog[i].sni # EmptyStr

\* The input names an explicit port: it parses as host:port as it is.
ExplicitPort(hostname) == SplitHostPort(hostname).err = ErrNil

\* The input parses, as it is or with ":8448" appended.
Parseable(hostname) ==
    \/ SplitHostPort(hostname).err = ErrNil
    \/ /\ SplitHostPort(hostname).err = MissingPort
       /\ SplitHostPort(hostname \o DefaultPortSuffix).err = ErrNil

\* The host part of a parseable input.
HostPart(hostname) ==
    IF ExplicitPort(hostname) THEN SplitHostPort(hostname).host
    ELSE SplitHostPort(hostname \o DefaultPortSuffix).host

\* C6: a call answered from the cache, by step 1 (IP literal) or by step 2
\* (explicit port) asks nothing of the network.
C6_NoNetworkForCacheIpOrPort ==
    \A j \in ResolveCalls :
        (/\ Parseable(resolveLog[j].hostname)
         /\ \/ AnsweredFromCache(j)
            \/ IsIP(HostPart(resolveLog[j].hostname))
            \/ ExplicitPort(resolveLog[j].hostname))
        => /\ resolveLog[j].net = << >>
           /\ resolveLog[j].err = ErrNil

C6_Witness ==
    \E j \in ResolveCalls :
        /\ ~CachedBefore(j)
        /\ ~AnsweredFromCache(j)
        /\ resolveLog[j].hostname = HostACo8449
        /\ resolveLog[j].url = Https \o HostACo8449
        /\ resolveLog[j].sni = HostACo
        /\ resolveLog[j].net = << >>

\* The five-step rule as the specification words it.
StripOneDot(target) ==
    IF Len(target) > 0 /\ target[Len(target)] = "."
    THEN SubSeq(target, 1, Len(target) - 1)
    ELSE target

PortDigits(port) == FormatInt(port)

Port8448 == <<"8", "4", "4", "8">>

HostPortUrl(host, port) == Https \o host \o <<":">> \o port

PrescribedDelegated(serverAddr, srv) ==
    LET explicit == SplitHostPort(serverAddr).err = ErrNil
        parsed == IF explicit THEN SplitHostPort(serverAddr)
                  ELSE SplitHostPort(serverAddr \o DefaultPortSuffix)
        wh == parsed.host
        wp == IF explicit THEN parsed.port ELSE Port8448
    IN  IF IsIP(wh) THEN <<HostPortUrl(wh, wp), serverAddr>>
        ELSE IF explicit THEN <<HostPortUrl(wh, wp), wh>>
        ELSE IF Len(srv) > 0
        THEN <<HostPortUrl(StripOneDot(srv[1].Target), PortDigits(srv[1].Port)), wh>>
        ELSE <<HostPortUrl(wh, Port8448), wh>>

Prescribed(hostname, wk, srv) ==
    LET explicit == ExplicitPort(hostname)
        h == HostPart(hostname)
        p == IF explicit THEN SplitHostPort(hostname).port ELSE Port8448
        delegated == /\ ~wk.getErr /\ wk.status = 200 /\ ~wk.readErr /\ ~wk.jsonErr
                     /\ wk.serverAddr # EmptyStr
                     /\ Parseable(wk.serverAddr)
    IN  IF IsIP(h) THEN <<HostPortUrl(h, p), hostname>>
        ELSE IF explicit THEN <<HostPortUrl(h, p), h>>
        ELSE IF delegated THEN PrescribedDelegated(wk.serverAddr, srv)
        ELSE IF Len(srv) > 0
        THEN <<HostPortUrl(StripOneDot(srv[1].Target), PortDigits(srv[1].Port)), h>>
        ELSE <<HostPortUrl(h, Port8448), h>>

\* The answers the network may have given to a call, given those it was
\* asked for: an answer that was not asked for may have been any.
AnswersAgree(net, answers, wk, srv) ==
    /\ Asked(net, "GET") => wk = answers.wk
    /\ Asked(net, "SRV") => srv = answers.srv

LatestCall == resolveLog[Len(resolveLog)]

\* C7: on a cache miss with a parseable input, the call returns the pair
\* that the first matching step of the five-step rule prescribes, for
\* every .well-known answer and every SRV answer.
C7_FiveStepRule ==
    (/\ Len(resolveLog) > 0
     /\ LatestCall.kind = "call"
     /\ ~AnsweredFromCache(Len(resolveLog))
     /\ Parseable(LatestCall.hostname))
    => \A wk \in WkAnswersFor(HostPart(LatestCall.hostname)), srv \in SrvAnswers :
           AnswersAgree(LatestCall.net, lastAnswers, wk, srv)
               => /\ LatestCall.err = ErrNil
                  /\ <<LatestCall.url, LatestCall.sni>>
                         = Prescribed(LatestCall.hostname, wk, srv)

\* A call that delegation and SRV decided (step 3c), with the target's dot.
C7_Witness ==
    /\ Len(resolveLog) > 0
    /\ LatestCall.kind = "call"
    /\ LatestCall.hostname = HostACo
    /\ lastAnswers.wk = WkOk(HostBCo)
    /\ lastAnswers.srv = <<SrvRecord(HostMBCo \o <<".">>, 8448)>>
    /\ LatestCall.url = Https \o HostMBCo \o <<":">> \o Port8448
    /\ LatestCall.sni = HostBCo

\* C8 as claimed: a call returns an error only when the parse of the input
\* fails for a reason other than a missing port.  Read at its weakest, the
\* parse that counts may be the one of the input itself or the one repeated
\* with ":8448" appended, whose error is the one returned; an input such as
\* "[a]b" misses its port both times and still gets an error.
C8_ErrorOnlyOnOtherParseFailure ==
    \A i \in ResolveCalls :
        resolveLog[i].err # ErrNil =>
            \/ SplitHostPort(resolveLog[i].hostname).err
                   \notin {ErrNil, MissingPort}
            \/ resolveLog[i].err # MissingPort

\* C8 amended: a call returns an error only when the input does not parse,
\* as it is or (when it misses the port) with ":8448" appended, and the
\* error is that of the parse; a failed .well-known step is followed by the
\* SRV lookup of step 4, and the call returns a result whatever fails on
\* the network.
C8_ErrorOnlyOnParseFailure ==
    /\ \A i \in ResolveCalls :
           /\ resolveLog[i].err # ErrNil =>
                  /\ ~Parseable(resolveLog[i].hostname)
                  /\ resolveLog[i].err \in
                         {SplitHostPort(resolveLog[i].hostname).err,
                          SplitHostPort(resolveLog[i].hostname
                                            \o DefaultPortSuffix).err}
           /\ Parseable(resolveLog[i].hostname) =>
                  /\ resolveLog[i].err = ErrNil
                  /\ HasHttpsPrefix(resolveLog[i].url)
    /\ (/\ Len(resolveLog) > 0
        /\ Asked(LatestCall.net, "GET")
        /\ \/ lastAnswers.wk.getErr
           \/ lastAnswers.wk.status # 200
           \/ lastAnswers.wk.readErr
           \/ lastAnswers.wk.jsonErr
           \/ lastAnswers.wk.serverAddr = EmptyStr
           \/ ~Parseable(lastAnswers.wk.serverAddr))
       => /\ LatestCall.err = ErrNil
          /\ LatestCall.net =
                 <<WkGet(HostPart(LatestCall.hostname)),
                   SrvLookup(LatestCall.hostname)>>
          /\ LatestCall.step \in {"4", "5"}

\* The .well-known GET failed, SRV gave nothing, and the call returned.
C8_Witness ==
    /\ Len(resolveLog) > 0
    /\ LatestCall.kind = "call"
    /\ LatestCall.hostname = HostACo
    /\ lastAnswers.wk.getErr
    /\ Asked(LatestCall.net, "SRV") /\ lastAnswers.srv = << >>
    /\ LatestCall.err = ErrNil
    /\ LatestCall.url = Https \o HostACo \o <<":">> \o Port8448
    /\ \E i \in ResolveCalls : resolveLog[i].err = UnexpectedClose

\* The items of the cache as a call finds them: none before the cache is
\* set up.
ItemsOf(inst) == IF inst.isNil THEN << >> ELSE inst.items

\* C15: a call that returns a result after a cache miss has set one entry,
\* under the input host name as it was given, to the URL it returns, on
\* its return; a call that returns an error or is answered from the cache
\* leaves the cache as it was; a call touches no entry under another key;
\* and a call that has not returned yet has set nothing.
C15_CacheWrites ==
    [][/\ (/\ Len(resolveLog') = Len(resolveLog) + 1
           /\ resolveLog'[Len(resolveLog')].kind = "call")
          => LET call == resolveLog'[Len(resolveLog')]
                 before == ItemsOf(apiUrlCacheInstance)
                 after == ItemsOf(apiUrlCacheInstance')
             IN  /\ (call.err = ErrNil /\ call.step # "cache") =>
                        /\ DOMAIN after = (DOMAIN before) \cup {call.hostname}
                        /\ after[call.hostname] = call.url
                 /\ (call.err # ErrNil \/ call.step = "cache") => after = before
                 /\ \A k \in (DOMAIN before) \cup (DOMAIN after) :
                        k # call.hostname =>
                            /\ k \in DOMAIN before
                            /\ k \in DOMAIN after
                            /\ after[k] = before[k]
       /\ Len(resolveLog') = Len(resolveLog) =>
              ItemsOf(apiUrlCacheInstance') = ItemsOf(apiUrlCacheInstance)]_vars

\* Two calls for a.co that both missed the cache, the second returning
\* after the first: each set the entry of a.co to the URL it returned, and
\* the entry holds the URL of the second.
C15_Witness ==
    /\ Len(resolveLog) = 2
    /\ resolveLog[1].kind = "call" /\ resolveLog[1].hostname = HostACo
    /\ resolveLog[2].kind = "call" /\ resolveLog[2].hostname = HostACo
    /\ resolveLog[1].step # "cache" /\ resolveLog[2].step # "cache"
    /\ resolveLog[1].url # resolveLog[2].url
    /\ DOMAIN apiUrlCacheInstance.items = {HostACo}
    /\ apiUrlCacheInstance.items[HostACo] = resolveLog[2].url

\* The .well-known answer names a server address that parses.
NamesServer(wk) ==
    /\ ~wk.getErr /\ wk.status = 200 /\ ~wk.readErr /\ ~wk.jsonErr
    /\ wk.serverAddr # EmptyStr
    /\ Parseable(wk.serverAddr)

\* C16: the .well-known GET comes before any SRV lookup; a call makes at
\* most one of each; the SRV lookup of the delegated host is made only when
\* the answer names a server that is no IP literal and has no port; the SRV
\* lookup of the input is made only when the answer names no usable
\* server; and a call answered by the cache, by a parse error or by steps
\* 1, 2, 3a or 3b asks nothing after the step that answered it.
C16_StrictOrderShortCircuit ==
    /\ \A i \in ResolveCalls :
           LET call == resolveLog[i]
           IN  /\ Len(call.net) <= 2
               /\ Len(call.net) >= 1 =>
                      call.net[1] = WkGet(HostPart(call.hostname))
               /\ Len(call.net) = 2 => call.net[2][1] = "SRV"
               /\ call.step \in {"cache", "parse", "1", "2"} => call.net = << >>
               /\ call.step \in {"3a", "3b"} => Len(call.net) = 1
               /\ call.step \in {"4", "5"} =>
                      /\ Len(call.net) = 2
                      /\ call.net[2] = SrvLookup(call.hostname)
    /\ (/\ Len(resolveLog) > 0
        /\ LatestCall.kind = "call"
        /\ Asked(LatestCall.net, "GET"))
       => LET wk == lastAnswers.wk
              wh == HostPart(wk.serverAddr)
          IN  IF NamesServer(wk)
              THEN /\ LatestCall.step \in {"3a", "3b", "3c", "3d"}
                   /\ Asked(LatestCall.net, "SRV")
                          <=> (~IsIP(wh) /\ ~ExplicitPort(wk.serverAddr))
                   /\ Asked(LatestCall.net, "SRV") =>
                          LatestCall.net[2] = SrvLookup(wh)
              ELSE /\ LatestCall.step \in {"4", "5"}
                   /\ LatestCall.net
                          = <<WkGet(HostPart(LatestCall.hostname)),
                              SrvLookup(LatestCall.hostname)>>

\* Delegation to b.co, whose SRV lookup gave nothing: one GET, then one SRV
\* lookup of b.co, and no lookup of a.co.
C16_Witness ==
    /\ Len(resolveLog) > 0
    /\ LatestCall.kind = "call"
    /\ LatestCall.hostname = HostACo
    /\ lastAnswers.wk = WkOk(HostBCo)
    /\ lastAnswers.srv = << >>
    /\ LatestCall.net = <<WkGet(HostACo), SrvLookup(HostBCo)>>
    /\ LatestCall.url = Https \o HostBCo \o <<":">> \o Port8448

(***************************************************************************)
(* Concurrent calls of GetServerApiUrl: setupCache and the cache, step by  *)
(* step.  Each goroutine makes one call; the calls interleave at the reads *)
(* and writes of apiUrlCacheInstance, at the sync.Once and at the cache's  *)
(* own Get and Set, which the cache makes atomic by its mutex.             *)
(***************************************************************************)
NumGoroutines == 2

Goroutines == 1..NumGoroutines

\* The host names the concurrent calls ask for.
SetupHostnames == {HostACo, HostACo8449, <<"a", "]">>}

IdleGoroutine ==
    [pc |-> "idle", hostname |-> EmptyStr, sawNil |-> FALSE, result |-> NoOutcome]

\* A goroutine is inside the function of the Once, under the Once's mutex.
InOnce(g) == goroutine[g].pc \in {"new", "store", "finish"}

OnceRunsAlways(done) == TRUE

\* sync.Once.Do runs its function when it has not run yet.
OnceRuns(done) == ~done

\* A goroutine calls GetServerApiUrl(hostname).
SetupStart(g, hostname) ==
    /\ goroutine[g].pc = "idle"
    /\ goroutine' = [goroutine EXCEPT ![g] =
           [IdleGoroutine EXCEPT !.pc = "check", !.hostname = hostname]]
    /\ UNCHANGED <<apiUrlCacheInstance, apiUrlSingletonLock, cacheNews, inFlight,
                   resolveLog, lastAnswers, fetcherVars, datastoreVars, thumbVars>>

\* setupCache: `if apiUrlCacheInstance == nil`.  The read is outside the
\* Once and races with the write inside it: while the pointer is nil it
\* reads nil, afterwards it reads nil or the pointer.
SetupCheck(g, readsNil) ==
    /\ goroutine[g].pc = "check"
    /\ apiUrlCacheInstance.isNil => readsNil
    /\ goroutine' = [goroutine EXCEPT ![g].pc = IF readsNil THEN "do" ELSE "get",
                                      ![g].sawNil = readsNil]
    /\ UNCHANGED <<apiUrlCacheInstance, apiUrlSingletonLock, cacheNews, inFlight,
                   resolveLog, lastAnswers, fetcherVars, datastoreVars, thumbVars>>

\* apiUrlSingletonLock.Do: returns at once when the function has run;
\* otherwise takes the mutex of the Once, waiting for a goroutine that is
\* inside, and runs the function if it still has not run.
OnceDo(g) ==
    /\ goroutine[g].pc = "do"
    /\ apiUrlSingletonLock \/ \A other \in Goroutines : ~InOnce(other)
    /\ goroutine' = [goroutine EXCEPT ![g].pc =
           IF OnceRuns(apiUrlSingletonLock) THEN "new" ELSE "get"]
    /\ UNCHANGED <<apiUrlCacheInstance, apiUrlSingletonLock, cacheNews, inFlight,
                   resolveLog, lastAnswers, fetcherVars, datastoreVars, thumbVars>>

\* cache.New(1*time.Hour, 2*time.Hour): an empty cache is constructed.
CacheNew(g) ==
    /\ goroutine[g].pc = "new"
    /\ cacheNews' = cacheNews + 1
    /\ goroutine' = [goroutine EXCEPT ![g].pc = "store"]
    /\ UNCHANGED <<apiUrlCacheInstance, apiUrlSingletonLock, inFlight,
                   resolveLog, lastAnswers, fetcherVars, datastoreVars, thumbVars>>

\* `apiUrlCacheInstance = ...`: the new cache becomes the instance.
CacheAssign(g) ==
    /\ goroutine[g].pc = "store"
    /\ apiUrlCacheInstance' = [isNil |-> FALSE, items |-> << >>]
    /\ goroutine' = [goroutine EXCEPT ![g].pc = "finish"]
    /\ UNCHANGED <<apiUrlSingletonLock, cacheNews, inFlight,
                   resolveLog, lastAnswers, fetcherVars, datastoreVars, thumbVars>>

\* The function returned: the Once is done and its mutex released.
OnceFinish(g) ==
    /\ goroutine[g].pc = "finish"
    /\ apiUrlSingletonLock' = TRUE
    /\ goroutine' = [goroutine EXCEPT ![g].pc = "get"]
    /\ UNCHANGED <<apiUrlCacheInstance, cacheNews, inFlight,
                   resolveLog, lastAnswers, fetcherVars, datastoreVars, thumbVars>>

\* The goroutine has the result r of the discovery in hand.
Discovered(g, r) ==
    goroutine' = [goroutine EXCEPT ![g].pc = IF r.wrote THEN "set" ELSE "done",
                                   ![g].result = r]

\* apiUrlCacheInstance.Get(hostname) and, on a miss, the discovery up to
\* the Set or the return, with the answers the network gives when the call
\* gets to ask.  On a nil instance the call panics.
CacheLookup(g) ==
    /\ goroutine[g].pc = "get"
    /\ IF apiUrlCacheInstance.isNil
       THEN goroutine' = [goroutine EXCEPT ![g].pc = "panic"]
       ELSE LET hostname == goroutine[g].hostname
                items == apiUrlCacheInstance.items
            IN  IF BeforeNetwork(hostname, items).step # "network"
                THEN Discovered(g, GetServerApiUrl(hostname, items, WkNotAsked, << >>))
                ELSE \E wk \in WkAnswersFor(ParseHostname(hostname).h),
                        srv \in SrvAnswers :
                         Discovered(g, GetServerApiUrl(hostname, items, wk, srv))
    /\ UNCHANGED <<apiUrlCacheInstance, apiUrlSingletonLock, cacheNews, inFlight,
                   resolveLog, lastAnswers, fetcherVars, datastoreVars, thumbVars>>

\* apiUrlCacheInstance.Set(hostname, url, cache.DefaultExpiration) and the
\* return.
CacheStore(g) ==
    /\ goroutine[g].pc = "set"
    /\ apiUrlCacheInstance' =
           IF apiUrlCacheInstance.isNil THEN apiUrlCacheInstance
           ELSE [apiUrlCacheInstance EXCEPT !.items =
                    CacheSet(@, goroutine[g].hostname, goroutine[g].result.url)]
    /\ goroutine' = [goroutine EXCEPT ![g].pc =
           IF apiUrlCacheInstance.isNil THEN "panic" ELSE "done"]
    /\ UNCHANGED <<apiUrlSingletonLock, cacheNews, inFlight,
                   resolveLog, lastAnswers, fetcherVars, datastoreVars, thumbVars>>

NextSetup ==
    \E g \in Goroutines :
        \/ \E hostname \in SetupHostnames : SetupStart(g, hostname)
        \/ \E readsNil \in BOOLEAN : SetupCheck(g, readsNil)
        \/ OnceDo(g)
        \/ CacheNew(g)
        \/ CacheAssign(g)
        \/ OnceFinish(g)
        \/ CacheLookup(g)
        \/ CacheStore(g)

\* The goroutine is past setupCache.
PastSetup(g) == goroutine[g].pc \in {"get", "set", "done", "panic"}

\* C18: however the concurrent calls interleave, cache.New runs once; the
\* instance, once set, is never set again, so no entry a call has set is
\* lost (an entry changes only by a Set of its own key); and every call that is past setupCache finds the instance set: no
\* call uses the cache before it is there.
C18_CacheConstructedOnce ==
    /\ [](/\ cacheNews <= 1
          /\ \A g \in Goroutines :
                 PastSetup(g) =>
                     /\ cacheNews = 1
                     /\ ~apiUrlCacheInstance.isNil
                     /\ goroutine[g].pc # "panic")
    /\ [][~apiUrlCacheInstance.isNil =>
             /\ ~apiUrlCacheInstance'.isNil
             /\ \A k \in DOMAIN apiUrlCacheInstance.items :
                    /\ k \in DOMAIN apiUrlCacheInstance'.items
                    /\ \/ apiUrlCacheInstance'.items[k] = apiUrlCacheInstance.items[k]
                       \/ \E g \in Goroutines :
                              /\ goroutine[g].pc = "set"
                              /\ goroutine'[g].pc = "done"
                              /\ goroutine[g].hostname = k]_vars

\* Two calls ran setupCache at once: both read nil, one ran the function of
\* the Once, and the entries of both are in the one cache.
C18_Witness ==
    /\ \A g \in Goroutines : goroutine[g].pc = "done" /\ goroutine[g].sawNil
    /\ cacheNews = 1
    /\ DOMAIN apiUrlCacheInstance.items = {HostACo, HostACo8449}

(***************************************************************************)
(* The federated fetcher: FederatedGet and its DialTLS                     *)
(***************************************************************************)
NoConn == [tcp |-> 0, ServerName |-> "", open |-> FALSE]

ErrDial == "dial failed"
ErrHandshakeSni == "handshake with ServerName failed"
ErrHandshakeNoSni == "handshake without ServerName failed"
ErrRoundTrip == "round trip failed"
ErrBadUrl == "invalid URL"

\* One handshake attempt: the TCP connection it ran on, the ServerName it
\* offered, and whether it succeeded.
Handshake(tcp, serverName, ok) == [tcp |-> tcp, ServerName |-> serverName, ok |-> ok]

\* The DialTLS function of the transport.  dialOk, hs1Ok, hs2Ok are what the
\* network does to the TCP dial, to the handshake with ServerName = realHost
\* and to the handshake with ServerName = "".  rawconn is TCP connection 1.
DialTLS(realHost, dialOk, hs1Ok, hs2Ok) ==
    IF ~dialOk
    THEN [conn |-> NoConn, err |-> ErrDial, dials |-> 0, handshakes |-> << >>]
    ELSE IF hs1Ok
    THEN [conn |-> [tcp |-> 1, ServerName |-> realHost, open |-> TRUE],
          err |-> ErrNil, dials |-> 1,
          handshakes |-> <<Handshake(1, realHost, TRUE)>>]
    ELSE IF ~hs2Ok
    THEN [conn |-> NoConn, err |-> ErrHandshakeNoSni, dials |-> 1,
          handshakes |-> <<Handshake(1, realHost, FALSE), Handshake(1, "", FALSE)>>]
    ELSE [conn |-> NoConn, err |-> ErrHandshakeSni, dials |-> 1,
          handshakes |-> <<Handshake(1, realHost, FALSE), Handshake(1, "", TRUE)>>]

NoResponse == [status |-> 0, Host |-> "", UserAgent |-> "", conn |-> NoConn]

FetchUrls == {"https://a.co:8448/_matrix/media/v1/download/a.co/x",
              "https://1.2.3.4:443/_matrix/media/v1/download/b.co/y",
              "https://a.co:8448/%zz"}

\* http.NewRequest fails on a URL that does not parse.
ValidUrl(url) == url # "https://a.co:8448/%zz"

RealHosts == {"a.co", "1.2.3.4"}

Statuses == {200, 404}

\* FederatedGet(url, realHost): the request is built, the transport dials
\* and sends it; status is the status the peer answers with, 0 when the
\* round trip fails after the dial.
FederatedGet(url, realHost, dialOk, hs1Ok, hs2Ok, status) ==
    IF ~ValidUrl(url)
    THEN [resp |-> NoResponse, err |-> ErrBadUrl, dials |-> 0,
          handshakes |-> << >>, sent |-> FALSE]
    ELSE LET d == DialTLS(realHost, dialOk, hs1Ok, hs2Ok)
         IN  IF d.err # ErrNil
             THEN [resp |-> NoResponse, err |-> d.err, dials |-> d.dials,
                   handshakes |-> d.handshakes, sent |-> FALSE]
             ELSE IF status = 0
             THEN [resp |-> NoResponse, err |-> ErrRoundTrip, dials |-> d.dials,
                   handshakes |-> d.handshakes, sent |-> TRUE]
             ELSE [resp |-> [status |-> status, Host |-> realHost,
                             UserAgent |-> "matrix-media-repo", conn |-> d.conn],
                   err |-> ErrNil, dials |-> d.dials,
                   handshakes |-> d.handshakes, sent |-> TRUE]

MaxFetchLog == 2

\* One call of FederatedGet, whole.
Fetch(url, realHost, dialOk, hs1Ok, hs2Ok, status) ==
    /\ Len(fetchLog) < MaxFetchLog
    /\ fetchLog' = Append(fetchLog,
           [url |-> url, realHost |-> realHost,
            result |-> FederatedGet(url, realHost, dialOk, hs1Ok, hs2Ok, status)])
    /\ UNCHANGED <<resolverVars, setupVars, datastoreVars, thumbVars>>

NextFetcher ==
    \E url \in FetchUrls, realHost \in RealHosts, dialOk \in BOOLEAN,
       hs1Ok \in BOOLEAN, hs2Ok \in BOOLEAN, status \in Statuses \cup {0} :
        Fetch(url, realHost, dialOk, hs1Ok, hs2Ok, status)

FetchCalls == 1..Len(fetchLog)

\* The retry of call i: a second handshake, offering no ServerName, after
\* a first one that failed.
Retried(i) ==
    LET hs == fetchLog[i].result.handshakes
    IN  Len(hs) = 2 /\ ~hs[1].ok /\ hs[2].ServerName = ""

\* C4: when the first handshake fails there is exactly one retry with an
\* empty ServerName, and when the retry succeeds the dial succeeds: the GET
\* is sent on the retried connection and the call fails only if the round
\* trip does.
C4_RetrySuccessIsSuccess ==
    \A i \in FetchCalls :
        LET r == fetchLog[i].result
        IN  /\ (Len(r.handshakes) > 0 /\ ~r.handshakes[1].ok) => Retried(i)
            /\ (Retried(i) /\ r.handshakes[2].ok) =>
                   /\ r.sent
                   /\ r.err \in {ErrNil, ErrRoundTrip}
                   /\ r.err = ErrNil => r.resp.conn.ServerName = ""

\* C13: when the handshake with ServerName fails and the retry without it
\* fails too, the dial returns the error of the first handshake.
C13_BothFailOriginalError ==
    \A i \in FetchCalls :
        LET r == fetchLog[i].result
        IN  (Retried(i) /\ ~r.handshakes[2].ok) =>
                /\ r.err = ErrHandshakeSni
                /\ ~r.sent

\* C14: no TCP connection carries two handshakes: the retry runs on a
\* connection dialled anew, so a call dials once per handshake.
C14_RetryOnFreshConnection ==
    \A i \in FetchCalls :
        LET r == fetchLog[i].result
        IN  /\ \A j, k \in DOMAIN r.handshakes :
                   j # k => r.handshakes[j].tcp # r.handshakes[k].tcp
            /\ Len(r.handshakes) > 0 => r.dials = Len(r.handshakes)

(***************************************************************************)
(* The datastore registry: GetOrCreateDatastoreOfType and                  *)
(* getOrCreateDatastoreWithMediaService                                    *)
(***************************************************************************)
ErrNoRows == "sql: no rows in result set"
ErrDb == "database error"
ErrUnique == "unique constraint violated"
ErrRandom == "random source failed"

NilDatastore == [isNil |-> TRUE, DatastoreId |-> 0, Type |-> "", Uri |-> ""]

\* &types.Datastore{DatastoreId: id, Type: dsType, Uri: dsUri}
Datastore(id, dsType, dsUri) ==
    [isNil |-> FALSE, DatastoreId |-> id, Type |-> dsType, Uri |-> dsUri]

\* MediaStore.GetDatastoreByUri: the row of that uri, or sql.ErrNoRows.
GetDatastoreByUri(table, uri) ==
    IF \E row \in table : row.Uri = uri
    THEN [datastore |-> CHOOSE row \in table : row.Uri = uri, err |-> ErrNil]
    ELSE [datastore |-> NilDatastore, err |-> ErrNoRows]

\* MediaStore.InsertDatastore: the table keeps uri unique.
InsertDatastore(table, datastore) ==
    IF \E row \in table : row.Uri = datastore.Uri
    THEN [table |-> table, err |-> ErrUnique]
    ELSE [table |-> table \cup {datastore}, err |-> ErrNil]

\* util.GenerateRandomString(32): 32 random characters, so an identifier
\* that no datastore in the table or in a caller's hands carries; the model
\* names it by the least number not in use.
GenerateRandomString(used) ==
    CHOOSE n \in 1..(Cardinality(used) + 1) :
        n \notin used /\ \A m \in 1..(n - 1) : m \in used

\* What a call does next: "generate" an identifier, or return.
Return(datastore, err) == [next |-> "return", datastore |-> datastore, err |-> err]
Generate == [next |-> "generate", datastore |-> NilDatastore, err |-> ErrNil]

OfTypeAlwaysCreates(datastore, err) == Generate

\* GetOrCreateDatastoreOfType after the lookup: only sql.ErrNoRows leads to
\* a creation; anything else returns the datastore of the lookup, no error.
OfTypeAfterLookup(datastore, err) ==
    IF err # ErrNil /\ err = ErrNoRows THEN Generate
    ELSE Return(datastore, ErrNil)

\* getOrCreateDatastoreWithMediaService after the lookup: any other error
\* of the lookup is returned.
WithMediaServiceAfterLookup(datastore, err) ==
    IF err # ErrNil /\ err = ErrNoRows THEN Generate
    ELSE IF err # ErrNil THEN Return(NilDatastore, err)
    ELSE Return(datastore, ErrNil)

AfterInsertIgnoringError(datastore, err2) == Return(datastore, ErrNil)

\* Both functions after InsertDatastore: its error is returned.
AfterInsert(datastore, err2) ==
    IF err2 # ErrNil THEN Return(NilDatastore, err2)
    ELSE Return(datastore, ErrNil)

Uris == {"/tmp/a", "/tmp/b"}
DsTypes == {"file", "s3"}
Functions == {"GetOrCreateDatastoreOfType", "getOrCreateDatastoreWithMediaService"}

NumCallers == 2

Callers == 1..NumCallers

IdleCall ==
    [pc |-> "idle", fn |-> "", dsType |-> "", uri |-> "",
     datastore |-> NilDatastore, err |-> ErrNil, lookup |-> "none",
     insert |-> "none"]

\* A caller enters one of the two functions, at any time: before, while or
\* after other callers run theirs.  The sibling always creates
\* datastores of type "file".
DsStart(p, fn, dsType, uri) ==
    /\ dsCall[p].pc = "idle"
    /\ fn = "getOrCreateDatastoreWithMediaService" => dsType = "file"
    /\ dsCall' = [dsCall EXCEPT ![p] =
           [IdleCall EXCEPT !.pc = "lookup", !.fn = fn, !.dsType = dsType,
                            !.uri = uri]]
    /\ UNCHANGED <<dsTable, resolverVars, setupVars, fetcherVars, thumbVars>>

AfterLookup(fn, datastore, err) ==
    IF fn = "GetOrCreateDatastoreOfType" THEN OfTypeAfterLookup(datastore, err)
    ELSE WithMediaServiceAfterLookup(datastore, err)

\* mediaService.GetDatastoreByUri and the branch on its result.  dbFails:
\* the database fails the query.  lookup keeps what the query gave.
DsLookup(p, dbFails) ==
    /\ dsCall[p].pc = "lookup"
    /\ LET got == IF dbFails THEN [datastore |-> NilDatastore, err |-> ErrDb]
                  ELSE GetDatastoreByUri(dsTable, dsCall[p].uri)
           then == AfterLookup(dsCall[p].fn, got.datastore, got.err)
           lookup == CASE got.err = ErrNil -> "found"
                       [] got.err = ErrNoRows -> "norows"
                       [] OTHER -> "error"
       IN  dsCall' = [dsCall EXCEPT ![p] =
               IF then.next = "generate"
               THEN [@ EXCEPT !.pc = "generate", !.lookup = lookup]
               ELSE [@ EXCEPT !.pc = "done", !.datastore = then.datastore,
                              !.err = then.err, !.lookup = lookup]]
    /\ UNCHANGED <<dsTable, resolverVars, setupVars, fetcherVars, thumbVars>>

\* The identifiers in the table and in the callers' hands.
UsedIds ==
    {row.DatastoreId : row \in dsTable}
        \cup {dsCall[q].datastore.DatastoreId :
                  q \in {c \in Callers : ~dsCall[c].datastore.isNil}}

\* util.GenerateRandomString and the construction of the datastore.
DsGenerate(p, randomFails) ==
    /\ dsCall[p].pc = "generate"
    /\ dsCall' = [dsCall EXCEPT ![p] =
           IF randomFails
           THEN [@ EXCEPT !.pc = "done", !.err = ErrRandom,
                          !.datastore = NilDatastore]
           ELSE [@ EXCEPT !.pc = "insert",
                          !.datastore = Datastore(GenerateRandomString(UsedIds),
                                                  dsCall[p].dsType, dsCall[p].uri)]]
    /\ UNCHANGED <<dsTable, resolverVars, setupVars, fetcherVars, thumbVars>>

\* mediaService.InsertDatastore and the return.
DsInsert(p, dbFails) ==
    /\ dsCall[p].pc = "insert"
    /\ LET ins == IF dbFails THEN [table |-> dsTable, err |-> ErrDb]
                  ELSE InsertDatastore(dsTable, dsCall[p].datastore)
           then == AfterInsert(dsCall[p].datastore, ins.err)
       IN  /\ dsTable' = ins.table
           /\ dsCall' = [dsCall EXCEPT ![p].pc = "done",
                  ![p].datastore = then.datastore, ![p].err = then.err,
                  ![p].insert = CASE ins.err = ErrNil -> "ok"
                                  [] ins.err = ErrUnique -> "conflict"
                                  [] OTHER -> "error"]
    /\ UNCHANGED <<resolverVars, setupVars, fetcherVars, thumbVars>>

NextDatastore ==
    \E p \in Callers :
        \/ \E fn \in Functions, dsType \in DsTypes, uri \in Uris :
               DsStart(p, fn, dsType, uri)
        \/ \E dbFails \in BOOLEAN : DsLookup(p, dbFails)
        \/ \E randomFails \in BOOLEAN : DsGenerate(p, randomFails)
        \/ \E dbFails \in BOOLEAN : DsInsert(p, dbFails)

(***************************************************************************)
(* Properties of the datastore registry                                    *)
(***************************************************************************)
Done(p) == dsCall[p].pc = "done"

\* The call of p returned a datastore and no error.
ReturnedDatastore(p) ==
    Done(p) /\ dsCall[p].err = ErrNil /\ ~dsCall[p].datastore.isNil

\* C2: a caller whose INSERT was rejected for uniqueness of the uri still
\* returns successfully, with the record that is stored for the uri.
C2_LoserReturnsStoredRecord ==
    \A p \in Callers :
        (Done(p) /\ dsCall[p].insert = "conflict") =>
            /\ ReturnedDatastore(p)
            /\ dsCall[p].datastore \in dsTable

\* C3: the table holds at most one record per uri, and the calls that
\* return a datastore for a uri all return the one stored for it.
C3_OneDatastorePerUri ==
    /\ \A r1, r2 \in dsTable : r1.Uri = r2.Uri => r1 = r2
    /\ \A p \in Callers :
           ReturnedDatastore(p) =>
               /\ dsCall[p].datastore \in dsTable
               /\ dsCall[p].datastore.Uri = dsCall[p].uri
    /\ \A p, q \in Callers :
           (ReturnedDatastore(p) /\ ReturnedDatastore(q)
              /\ dsCall[p].uri = dsCall[q].uri)
           => dsCall[p].datastore.DatastoreId = dsCall[q].datastore.DatastoreId

\* Two callers raced for one uri: one inserted and returned its record, the
\* other's insert was rejected.
C3_Witness ==
    \E p, q \in Callers :
        /\ p # q
        /\ dsCall[p].uri = dsCall[q].uri
        /\ ReturnedDatastore(p) /\ dsCall[p].insert = "ok"
        /\ Done(q) /\ dsCall[q].insert = "conflict"

\* The record the table holds for a uri.
StoredFor(uri) == CHOOSE row \in dsTable : row.Uri = uri

\* C12: a call whose lookup finds a record for its uri returns that record
\* as it is stored (its identifier, its stored type even when the call
\* names another, its uri), generates no identifier and makes no INSERT: the
\* step of the lookup is the return and leaves the table alone.  Hence the
\* calls for one uri, one after the other, all return one identifier, and
\* the table holds one record for the uri.
C12_FoundReturnedUnchanged ==
    /\ [](\A p \in Callers :
             (Done(p) /\ dsCall[p].lookup = "found") =>
                 /\ ReturnedDatastore(p)
                 /\ dsCall[p].datastore = StoredFor(dsCall[p].uri)
                 /\ dsCall[p].insert = "none"
                 /\ Cardinality({row \in dsTable : row.Uri = dsCall[p].uri}) = 1
                 /\ \A q \in Callers :
                        (ReturnedDatastore(q) /\ dsCall[q].uri = dsCall[p].uri)
                        => dsCall[q].datastore.DatastoreId
                               = dsCall[p].datastore.DatastoreId)
    /\ [][\A p \in Callers :
             (/\ dsCall[p].pc = "lookup"
              /\ dsCall'[p].pc # "lookup"
              /\ dsCall'[p].lookup = "found")
             => /\ dsCall'[p].pc = "done"
                /\ dsTable' = dsTable
                /\ dsCall'[p].datastore = StoredFor(dsCall[p].uri)]_vars

\* A second call for a stored uri, naming another type, got the record of
\* the first.
C12_Witness ==
    \E p, q \in Callers :
        /\ p # q
        /\ ReturnedDatastore(p) /\ dsCall[p].insert = "ok"
        /\ Done(q) /\ dsCall[q].lookup = "found"
        /\ dsCall[q].uri = dsCall[p].uri
        /\ dsCall[q].dsType # dsCall[q].datastore.Type
        /\ dsCall[q].datastore.DatastoreId = dsCall[p].datastore.DatastoreId

\* C19: no call returns a nil datastore with a nil error: a call returns
\* either a datastore and no error, or an error and no datastore; and a
\* lookup that fails otherwise than by finding no row ends the call with an
\* error and without an INSERT.
C19_NeverNilWithoutError ==
    \A p \in Callers :
        Done(p) =>
            /\ dsCall[p].datastore.isNil <=> dsCall[p].err # ErrNil
            /\ dsCall[p].lookup = "error" =>
                   /\ dsCall[p].err # ErrNil
                   /\ dsCall[p].insert = "none"

(***************************************************************************)
(* The thumbnailer: GenerateThumbnail and thumbnailFrame                   *)
(***************************************************************************)
\* The animatedTypes of the package: the MIME types that can be animated.
AnimatedTypes == {"image/gif"}

\* util.ArrayContains
ArrayContains(arr, value) == value \in arr

ErrOpen == "imaging.Open failed"
ErrOsOpen == "os.Open failed"
ErrDecode == "gif: decode failed"
ErrEncode == "encode failed"
ErrPersist == "persist failed"
ErrStat == "stat failed"
ErrMethod == "unrecognized method"

NilThumb ==
    [isNil |-> TRUE, ContentType |-> "", DiskLocation |-> "", SizeBytes |-> 0,
     Animated |-> FALSE]

NoImage == [op |-> "", width |-> 0, height |-> 0]

thumbnailFrameAnyMethod(method, width, height) ==
    [img |-> [op |-> "Fit", width |-> width, height |-> height], err |-> ErrNil]

\* thumbnailFrame: imaging.Fit for "scale", imaging.Fill for "crop", an
\* error for any other method.
thumbnailFrame(method, width, height) ==
    IF method = "scale"
    THEN [img |-> [op |-> "Fit", width |-> width, height |-> height], err |-> ErrNil]
    ELSE IF method = "crop"
    THEN [img |-> [op |-> "Fill", width |-> width, height |-> height], err |-> ErrNil]
    ELSE [img |-> NoImage, err |-> ErrMethod]

NormalizeAnimatedKept(animated, contentType) == animated

\* "Attempted to animate a media record that isn't an animated type.
\* Assuming animated=false"
NormalizeAnimated(animated, contentType) ==
    IF animated /\ ~ArrayContains(AnimatedTypes, contentType) THEN FALSE
    ELSE animated

(***************************************************************************)
(* float32 arithmetic.  A finite non-zero float32 in the range of the      *)
(* quotients of two ints is a sign and m * 2^e with 2^23 <= m < 2^24.      *)
(***************************************************************************)
Abs(n) == IF n < 0 THEN -n ELSE n

RECURSIVE BitLen(_)
\* The number of binary digits of n >= 0.
BitLen(n) == IF n = 0 THEN 0 ELSE 1 + BitLen(n \div 2)

\* Round to nearest, ties to even: q is the quotient cut off, r what is
\* left of the dividend, d the divisor.
RoundHalfEven(q, r, d) ==
    IF 2 * r > d \/ (2 * r = d /\ q % 2 = 1) THEN q + 1 ELSE q

\* A rounded significand of 2^24 is 2^23 with the next exponent.
Normal(m, e) == IF m = 16777216 THEN <<8388608, e + 1>> ELSE <<m, e>>

\* float32(n) of an int n > 0: exact up to 24 binary digits, rounded beyond.
Float32OfInt(n) ==
    LET b == BitLen(n)
    IN  IF b <= 24 THEN <<n * 2^(24 - b), b - 24>>
        ELSE LET d == 2^(b - 24)
             IN  Normal(RoundHalfEven(n \div d, n % d, d), b - 24)

RECURSIVE QuoBits(_, _, _, _)
\* k more binary digits of num / den after the digits acc, for num < den:
\* the digits and what is left of the dividend.
QuoBits(num, den, k, acc) ==
    IF k = 0 THEN <<acc, num>>
    ELSE IF 2 * num >= den THEN QuoBits(2 * num - den, den, k - 1, 2 * acc + 1)
    ELSE QuoBits(2 * num, den, k - 1, 2 * acc)

\* The float32 quotient of two positive float32 values, rounded once.
Float32Quo(x, y) ==
    IF x[1] >= y[1]
    THEN LET q == QuoBits(x[1] - y[1], y[1], 23, 1)
         IN  Normal(RoundHalfEven(q[1], q[2], y[1]), x[2] - y[2] - 23)
    ELSE LET q == QuoBits(x[1], y[1], 24, 0)
         IN  Normal(RoundHalfEven(q[1], q[2], y[1]), x[2] - y[2] - 24)

\* float32(a) / float32(b) of two ints: 0/0 is a NaN, a/0 an infinity.
Float32Div(a, b) ==
    LET neg == (a < 0) # (b < 0)
    IN  IF a = 0 /\ b = 0 THEN [class |-> "NaN", neg |-> FALSE, val |-> <<0, 0>>]
        ELSE IF b = 0 THEN [class |-> "Inf", neg |-> a < 0, val |-> <<0, 0>>]
        ELSE IF a = 0 THEN [class |-> "zero", neg |-> neg, val |-> <<0, 0>>]
        ELSE [class |-> "finite", neg |-> neg,
              val |-> Float32Quo(Float32OfInt(Abs(a)), Float32OfInt(Abs(b)))]

\* The == of two float32 values: a NaN equals nothing, the two zeros are
\* equal.
Float32Equal(x, y) ==
    /\ x.class # "NaN" /\ y.class # "NaN"
    /\ x.class = y.class
    /\ x.class = "zero" \/ (x.neg = y.neg /\ x.val = y.val)

\* aspectRatio == targetAspectRatio, where
\* aspectRatio := float32(srcHeight) / float32(srcWidth) and
\* targetAspectRatio := float32(width) / float32(height).
SameAspectRatio(srcWidth, srcHeight, width, height) ==
    Float32Equal(Float32Div(srcHeight, srcWidth), Float32Div(width, height))

\* "Image is too small": the source fits in the requested box.
TooSmall(srcWidth, srcHeight, width, height) ==
    srcWidth <= width /\ srcHeight <= height

PassThroughNever(small, forceGeneration) == FALSE

PassThroughWhenSmall(small, forceGeneration) == small

\* The raw image is returned when it is too small and generation is not
\* forced.
PassThrough(small, forceGeneration) == small /\ ~forceGeneration

\* imaging.Fit and imaging.Fill give an empty image for a target that is
\* not positive in both dimensions, and the PNG encoder refuses an empty
\* image ("invalid image size").
EmptyImage(width, height) == width <= 0 \/ height <= 0

\* gif.EncodeAll refuses a frame that does not lie within the canvas of
\* the GIF it decoded ("gif: image block is out of bounds").  The canvas
\* and the frames have the size of the source.  imaging.Fill gives a frame
\* of the size asked for, whatever the size of the source; imaging.Fit
\* gives a frame no larger than the source.
OutOfBounds(img, srcWidth, srcHeight) ==
    /\ img.op = "Fill"
    /\ ~EmptyImage(img.width, img.height)
    /\ (img.width > srcWidth \/ img.height > srcHeight)

Failed(err) == [thumb |-> NilThumb, err |-> err, persisted |-> << >>,
                frameCalls |-> << >>]

\* The frames the animated path transforms: one thumbnailFrame per frame,
\* stopping at the first error.
FrameCalls(frames, method, width, height) ==
    [i \in 1..frames |-> [method |-> method, width |-> width, height |-> height]]

\* GenerateThumbnail.  media carries the record (ContentType, Location,
\* SizeBytes) and what its file holds (srcWidth, srcHeight, frames).  env
\* says which step fails, if any (fail), and the path and length of the blob
\* that PersistFile writes (location, encoded).  persisted lists the blobs
\* PersistFile wrote during the call.
GenerateThumbnail(media, width0, height0, method0, animated0, forceGeneration, env) ==
    LET animated == NormalizeAnimated(animated0, media.ContentType)
        srcWidth == media.srcWidth
        srcHeight == media.srcHeight
        method == IF SameAspectRatio(srcWidth, srcHeight, width0, height0)
                  THEN "scale" ELSE method0
        small == TooSmall(srcWidth, srcHeight, width0, height0)
        width == IF small /\ forceGeneration THEN srcWidth ELSE width0
        height == IF small /\ forceGeneration THEN srcHeight ELSE height0
        gif == animated /\ ArrayContains(AnimatedTypes, media.ContentType)
        contentType == IF gif THEN "image/gif" ELSE "image/png"
        frame == thumbnailFrame(method, width, height)
        calls == FrameCalls(IF gif THEN media.frames ELSE 1, method, width, height)
        blob == [location |-> env.location, size |-> env.encoded]
    IN  IF env.fail = "open" THEN Failed(ErrOpen)
        ELSE IF PassThrough(small, forceGeneration)
        THEN [thumb |-> [isNil |-> FALSE, ContentType |-> media.ContentType,
                         DiskLocation |-> media.Location,
                         SizeBytes |-> media.SizeBytes, Animated |-> animated],
              err |-> ErrNil, persisted |-> << >>, frameCalls |-> << >>]
        ELSE IF gif /\ env.fail = "osopen" THEN Failed(ErrOsOpen)
        ELSE IF gif /\ env.fail = "decode" THEN Failed(ErrDecode)
        ELSE IF frame.err # ErrNil
        THEN [Failed(frame.err) EXCEPT !.frameCalls = SubSeq(calls, 1, 1)]
        ELSE IF \/ env.fail = "encode"
                \/ (~gif /\ EmptyImage(width, height))
                \/ (gif /\ OutOfBounds(frame.img, srcWidth, srcHeight))
        THEN [Failed(ErrEncode) EXCEPT !.frameCalls = calls]
        ELSE IF env.fail = "persist"
        THEN [Failed(ErrPersist) EXCEPT !.frameCalls = calls]
        ELSE IF env.fail = "stat"
        THEN [Failed(ErrStat) EXCEPT !.frameCalls = calls, !.persisted = <<blob>>]
        ELSE [thumb |-> [isNil |-> FALSE, ContentType |-> contentType,
                         DiskLocation |-> blob.location, SizeBytes |-> blob.size,
                         Animated |-> animated],
              err |-> ErrNil, persisted |-> <<blob>>, frameCalls |-> calls]

MaxDim == 2
MaxBlobs == 1

\* The sizes of the sources: some fit in a box, some exceed every box of
\* the unraised bound in one dimension or in both.
SrcDims == {1, 2, 3}
Dims == 0..MaxDim
Methods == {"scale", "crop", "fit"}
FrameCounts == {1, 2}
ContentTypes == {"image/png", "image/gif"}
EncodedSizes == {64, 65}
Failures == {"none", "open", "osopen", "decode", "encode", "persist", "stat"}

\* A media record, with what its file holds.
Media(contentType, srcWidth, srcHeight, frames) ==
    [ContentType |-> contentType, Location |-> "media/source", SizeBytes |-> 512,
     srcWidth |-> srcWidth, srcHeight |-> srcHeight, frames |-> frames]

Medias ==
    {m \in {Media(c, sw, sh, f) : c \in ContentTypes, sw \in SrcDims,
                                  sh \in SrcDims, f \in FrameCounts} :
         m.ContentType \in AnimatedTypes \/ m.frames = 1}

NoMedia == Media("", 0, 0, 0)

IdleThumb ==
    [pc |-> "idle", media |-> NoMedia, width |-> 0, height |-> 0, method |-> "",
     animated |-> FALSE, forceGeneration |-> FALSE, blobsBefore |-> 0,
     result |-> Failed(ErrNil)]

\* PersistFile picks a path that no blob has yet.
NextLocation == <<"thumbnail", Len(disk) + 1>>

\* A caller asks for a thumbnail.
ThumbRequest(media, width, height, method, animated, forceGeneration) ==
    /\ thumbCall.pc = "idle"
    /\ Len(disk) < MaxBlobs
    /\ thumbCall' = [IdleThumb EXCEPT !.pc = "called", !.media = media,
           !.width = width, !.height = height, !.method = method,
           !.animated = animated, !.forceGeneration = forceGeneration,
           !.blobsBefore = Len(disk)]
    /\ UNCHANGED <<disk, resolverVars, setupVars, fetcherVars, datastoreVars>>

\* GenerateThumbnail runs, whole, and returns.
ThumbGenerate(fail, encoded) ==
    /\ thumbCall.pc = "called"
    \* the length of the blob counts only when PersistFile writes it
    /\ fail \in {"none", "stat"} \/ \A other \in EncodedSizes : encoded <= other
    /\ LET r == GenerateThumbnail(thumbCall.media, thumbCall.width,
                   thumbCall.height, thumbCall.method, thumbCall.animated,
                   thumbCall.forceGeneration,
                   [fail |-> fail, encoded |-> encoded, location |-> NextLocation])
       IN  /\ thumbCall' = [thumbCall EXCEPT !.pc = "returned", !.result = r]
           /\ disk' = disk \o [i \in 1..Len(r.persisted) |-> r.persisted[i].size]
    /\ UNCHANGED <<resolverVars, setupVars, fetcherVars, datastoreVars>>

\* The caller takes the result.
ThumbDone ==
    /\ thumbCall.pc = "returned"
    /\ thumbCall' = IdleThumb
    /\ UNCHANGED <<disk, resolverVars, setupVars, fetcherVars, datastoreVars>>

NextThumb ==
    \/ \E media \in Medias, width \in Dims, height \in Dims, method \in Methods,
          animated \in BOOLEAN, forceGeneration \in BOOLEAN :
           ThumbRequest(media, width, height, method, animated, forceGeneration)
    \/ \E fail \in Failures, encoded \in EncodedSizes : ThumbGenerate(fail, encoded)
    \/ ThumbDone

(***************************************************************************)
(* Properties of the thumbnailer                                           *)
(***************************************************************************)
ThumbReturned == thumbCall.pc = "returned"

\* The source of the call fits in the box that was asked for.
SourceFits ==
    /\ thumbCall.media.srcWidth <= thumbCall.width
    /\ thumbCall.media.srcHeight <= thumbCall.height

\* C9: when the source fits in the requested box and generation is not
\* forced, the call returns the media's own location, content type and
\* size, and PersistFile is not invoked: no blob is written.
C9_PassThrough ==
    (/\ ThumbReturned
     /\ thumbCall.result.err # ErrOpen
     /\ SourceFits
     /\ ~thumbCall.forceGeneration)
    => /\ thumbCall.result.err = ErrNil
       /\ ~thumbCall.result.thumb.isNil
       /\ thumbCall.result.thumb.DiskLocation = thumbCall.media.Location
       /\ thumbCall.result.thumb.ContentType = thumbCall.media.ContentType
       /\ thumbCall.result.thumb.SizeBytes = thumbCall.media.SizeBytes
       /\ thumbCall.result.persisted = << >>
       /\ Len(disk) = thumbCall.blobsBefore

\* Scenario 5 in small: a 2x1 PNG asked for at 2x2, scaled, not forced.
C9_Witness ==
    /\ ThumbReturned
    /\ thumbCall.media = Media("image/png", 2, 1, 1)
    /\ thumbCall.width = 2 /\ thumbCall.height = 2
    /\ thumbCall.method = "scale"
    /\ ~thumbCall.animated /\ ~thumbCall.forceGeneration
    /\ thumbCall.result.thumb.DiskLocation = "media/source"
    /\ disk = << >>

\* C10: a call that succeeds and is not a pass-through returns "image/gif"
\* exactly when it returns Animated, "image/png" otherwise, and returns
\* Animated only if animation was asked for and the media is of an
\* animated type.
C10_ContentTypeFollowsAnimated ==
    (/\ ThumbReturned
     /\ thumbCall.result.err = ErrNil
     /\ ~(SourceFits /\ ~thumbCall.forceGeneration))
    => /\ thumbCall.result.thumb.Animated
              <=> thumbCall.result.thumb.ContentType = "image/gif"
       /\ ~thumbCall.result.thumb.Animated
              => thumbCall.result.thumb.ContentType = "image/png"
       /\ thumbCall.result.thumb.Animated
              => /\ thumbCall.animated
                 /\ thumbCall.media.ContentType \in AnimatedTypes

\* Animation asked of a PNG: the call goes the still way.
C10_Witness ==
    /\ ThumbReturned
    /\ thumbCall.animated
    /\ thumbCall.media.ContentType = "image/png"
    /\ ~SourceFits
    /\ thumbCall.result.err = ErrNil
    /\ thumbCall.result.thumb.ContentType = "image/png"
    /\ ~thumbCall.result.thumb.Animated
    /\ Len(disk) = thumbCall.blobsBefore + 1

\* C11 as claimed: a call whose method is neither "scale" nor "crop" fails
\* with the unrecognized-method error, whatever the sizes and the flags; it
\* returns no thumbnail and persists nothing.  A call whose source could
\* not be read at all (open or decode failed) is left aside.
C11_UnknownMethodFails ==
    (/\ ThumbReturned
     /\ thumbCall.result.err \notin {ErrOpen, ErrOsOpen, ErrDecode}
     /\ thumbCall.method \notin {"scale", "crop"})
    => /\ thumbCall.result.err = ErrMethod
       /\ thumbCall.result.thumb.isNil
       /\ thumbCall.result.persisted = << >>
       /\ Len(disk) = thumbCall.blobsBefore

\* The aspect-ratio test of the call is true: its method becomes "scale".
MethodOverridden ==
    SameAspectRatio(thumbCall.media.srcWidth, thumbCall.media.srcHeight,
                    thumbCall.width, thumbCall.height)

\* C11 amended: a call whose method is neither "scale" nor "crop", and
\* whose source could be read, fails with the unrecognized-method error
\* exactly when it gets to the transform with its method: when the
\* aspect-ratio test is false and the call is no pass-through.  It then
\* returns no thumbnail and persists nothing.  When the aspect ratios are
\* equal the call goes on as "scale", and a pass-through never looks at the
\* method.
C11_UnknownMethodFailsAtTransform ==
    (/\ ThumbReturned
     /\ thumbCall.result.err \notin {ErrOpen, ErrOsOpen, ErrDecode}
     /\ thumbCall.method \notin {"scale", "crop"})
    => IF MethodOverridden \/ (SourceFits /\ ~thumbCall.forceGeneration)
       THEN thumbCall.result.err # ErrMethod
       ELSE /\ thumbCall.result.err = ErrMethod
            /\ thumbCall.result.thumb.isNil
            /\ thumbCall.result.persisted = << >>
            /\ Len(disk) = thumbCall.blobsBefore

\* An animated 1x2 GIF of two frames asked for at 1x1 by method "fit": the
\* first frame's transform fails.
C11_Witness ==
    /\ ThumbReturned
    /\ thumbCall.media = Media("image/gif", 1, 2, 2)
    /\ thumbCall.width = 1 /\ thumbCall.height = 1
    /\ thumbCall.method = "fit"
    /\ thumbCall.animated
    /\ thumbCall.result.err = ErrMethod
    /\ Len(thumbCall.result.frameCalls) = 1
    /\ disk = << >>

\* C17: when the source fits in the requested box and generation is forced,
\* the call does not return the raw image; every transform it runs has the
\* source's dimensions as its target; and when it succeeds PersistFile ran
\* exactly once, the record's location is the path PersistFile gave and its
\* size is the size of that file.
C17_ForcedGeneration ==
    (/\ ThumbReturned
     /\ SourceFits
     /\ thumbCall.forceGeneration)
    => /\ ~(/\ thumbCall.result.err = ErrNil
            /\ thumbCall.result.thumb.DiskLocation = thumbCall.media.Location)
       /\ \A i \in DOMAIN thumbCall.result.frameCalls :
              /\ thumbCall.result.frameCalls[i].width = thumbCall.media.srcWidth
              /\ thumbCall.result.frameCalls[i].height = thumbCall.media.srcHeight
       /\ thumbCall.result.err = ErrNil =>
              /\ thumbCall.result.frameCalls # << >>
              /\ Len(thumbCall.result.persisted) = 1
              /\ Len(disk) = thumbCall.blobsBefore + 1
              /\ ~thumbCall.result.thumb.isNil
              /\ thumbCall.result.thumb.DiskLocation
                     = thumbCall.result.persisted[1].location
              /\ thumbCall.result.thumb.SizeBytes = disk[Len(disk)]

\* A 1x2 PNG asked for at 2x2, cropped, forced: filled at 1x2 and stored.
C17_Witness ==
    /\ ThumbReturned
    /\ thumbCall.media = Media("image/png", 1, 2, 1)
    /\ thumbCall.width = 2 /\ thumbCall.height = 2
    /\ thumbCall.method = "crop"
    /\ thumbCall.forceGeneration
    /\ thumbCall.result.err = ErrNil
    /\ thumbCall.result.frameCalls = <<[method |-> "crop", width |-> 1, height |-> 2]>>
    /\ thumbCall.result.thumb.DiskLocation = <<"thumbnail", 1>>
    /\ thumbCall.result.thumb.SizeBytes = disk[1]

\* C20: a call that returns an error returns no thumbnail record and leaves
\* no blob on the disk that was not there before the call.
C20_ErrorLeavesNoBlob ==
    (/\ ThumbReturned
     /\ thumbCall.result.err # ErrNil)
    => /\ thumbCall.result.thumb.isNil
       /\ Len(disk) = thumbCall.blobsBefore

(***************************************************************************)
(* Initial state and specifications                                        *)
(***************************************************************************)
Init ==
    /\ apiUrlCacheInstance = [isNil |-> TRUE, items |-> << >>]
    /\ apiUrlSingletonLock = FALSE
    /\ goroutine = [g \in Goroutines |-> IdleGoroutine]
    /\ cacheNews = 0
    /\ inFlight = EmptyBag
    /\ resolveLog = << >>
    /\ lastAnswers = NoAnswers
    /\ fetchLog = << >>
    /\ dsTable = {}
    /\ dsCall = [p \in Callers |-> IdleCall]
    /\ disk = << >>
    /\ thumbCall = IdleThumb

SpecResolver == Init /\ [][NextResolver]_vars

SpecSetup == Init /\ [][NextSetup]_vars

SpecFetcher == Init /\ [][NextFetcher]_vars

SpecDatastore == Init /\ [][NextDatastore]_vars

SpecThumb == Init /\ [][NextThumb]_vars

====
